---- MODULE Spec2Model ----
(***************************************************************************)
(* State-machine model of the AEGIS platform backend (FastAPI handlers    *)
(* over a relational store).  A handler that awaits the store several     *)
(* times is modelled as several steps of one request slot, so that the    *)
(* steps of concurrently running requests interleave at the awaits        *)
(* (db.execute / db.commit), as they do under the asyncio server.         *)
(***************************************************************************)
EXTENDS Integers, Sequences, FiniteSets, TLC

\* ------------------------------------------------------------------ bounds
MaxReq == 2          \* requests in flight at the same time
MaxGrievances == 1   \* rows of table grievances
MaxUpdates == 1      \* status updates each actor posts through add_grievance_update
MaxCourses == 1      \* rows of table courses
MaxEnrollments == 2  \* rows of table enrollments
MaxOpportunities == 1  \* rows of table opportunities
MaxApplications == 2 \* rows of table applications
MaxDay == 1          \* days the wall clock advances
MaxNewUsers == 1     \* users registered on top of the seeded ones
MaxTasks == 1        \* tasks created
MaxPathLen == 3       \* parts of a requested file path
MaxTokens == 5       \* tokens issued on top of the seeded users' first ones

\* ------------------------------------------------- python values in the model
\* A value carries its python type, so that str(x), truthiness and == between a
\* uuid.UUID and a str behave as in the source.
None == [t |-> "none", v |-> "None"]
PyStr(s) == [t |-> "str", v |-> s]
UUID(s) == [t |-> "uuid", v |-> s]
PyInt(n) == [t |-> "int", v |-> n]
str(x) == [t |-> "str", v |-> x.v]
Truthy(x) == x.t # "none"

HTTP_200_OK == 200
HTTP_201_CREATED == 201
HTTP_400_BAD_REQUEST == 400
HTTP_403_FORBIDDEN == 403
HTTP_404_NOT_FOUND == 404
HTTP_500_INTERNAL_SERVER_ERROR == 500

UserRole == {"STUDENT", "FACULTY", "AUTHORITY", "ADMIN"}
GrievanceStatus == {"SUBMITTED", "UNDER_REVIEW", "IN_PROGRESS", "RESOLVED"}
GrievanceCategory == {"INFRASTRUCTURE", "ACADEMICS", "HOSTEL", "FOOD", "OTHER"}

\* ------------------------------------------------------------------- state
VARIABLES
    users,              \* table users: set of rows
    tokens,             \* bearer tokens issued so far (their claims)
    utcnow,             \* datetime.utcnow(), in minutes
    grievances,         \* table grievances: sequence of rows, id = index
    grievance_updates,  \* table grievance_updates, in insertion order
    g_origin,           \* history: per grievance, who called create_grievance
    courses,            \* table courses: sequence of rows, id = index
    enrollments,        \* table enrollments, in insertion order
    resources,          \* table resources, in insertion order
    opportunities,      \* table opportunities: sequence of rows, id = index
    applications,       \* table applications, in insertion order
    today,              \* the wall clock's date, in days
    tasks,              \* table tasks: set of rows
    tasks_created,      \* number of task ids handed out so far
    requests,           \* the requests in flight, per slot: each a handler's
                        \* arguments, locals and position
    response            \* the response the last step sent, if it sent one

grievanceVars == <<grievances, grievance_updates, g_origin>>
courseVars == <<courses, enrollments, resources>>
oppVars == <<opportunities, applications, today>>
taskVars == <<tasks, tasks_created>>
vars == <<users, tokens, utcnow, grievanceVars, courseVars, oppVars, taskVars, requests, response>>

Slots == 1..MaxReq

HTTP_401_UNAUTHORIZED == 401

\* get_password_hash / verify_password (security.py lines 10-26): the bcrypt
\* hash of a password, and the check of a password against a hash.
get_password_hash(password) == <<"bcrypt", password>>
verify_password(plain_password, hashed_password) ==
    hashed_password = get_password_hash(plain_password)

TEST_PASSWORD == "password123"

\* Users created by seed.py (one per role is enough for the seeded roles,
\* two students).
TEST_USERS ==
    { [id |-> "faculty1", email |-> <<"faculty1", "@", "iitmandi.ac.in">>,
       role |-> "FACULTY", display_name |-> PyStr("Dr. Rajesh Kumar"), is_active |-> TRUE,
       password_hash |-> get_password_hash(TEST_PASSWORD)],
      [id |-> "authority1", email |-> <<"authority1", "@", "iitmandi.ac.in">>,
       role |-> "AUTHORITY", display_name |-> PyStr("Dr. Authority One"), is_active |-> TRUE,
       password_hash |-> get_password_hash(TEST_PASSWORD)],
      [id |-> "student1", email |-> <<"student1", "@", "students", ".", "iitmandi.ac.in">>,
       role |-> "STUDENT", display_name |-> PyStr("Rahul Verma"), is_active |-> TRUE,
       password_hash |-> get_password_hash(TEST_PASSWORD)],
      [id |-> "student2", email |-> <<"student2", "@", "students", ".", "iitmandi.ac.in">>,
       role |-> "STUDENT", display_name |-> PyStr("Neha Gupta"), is_active |-> TRUE,
       password_hash |-> get_password_hash(TEST_PASSWORD)],
      [id |-> "admin", email |-> <<"admin", "@", "iitmandi.ac.in">>,
       role |-> "ADMIN", display_name |-> PyStr("System Admin"), is_active |-> TRUE,
       password_hash |-> get_password_hash(TEST_PASSWORD)] }

\* login: the claims put into a token for a user row.
token_data(user) == [sub |-> user.id, email |-> user.email, role |-> user.role]

ACCESS_TOKEN_EXPIRE_MINUTES == 15
REFRESH_TOKEN_EXPIRE_DAYS == 7

\* create_access_token / create_refresh_token (security.py lines 29-54): the
\* claims in data plus the expiry; nothing tells the two kinds apart but exp.
create_access_token(data) ==
    [sub |-> data.sub, email |-> data.email, role |-> data.role,
     exp |-> utcnow + ACCESS_TOKEN_EXPIRE_MINUTES]

\* Mutant: a refresh token that carries no role.
create_refresh_token_without_role(data) ==
    [sub |-> data.sub, email |-> data.email, role |-> "",
     exp |-> utcnow + REFRESH_TOKEN_EXPIRE_DAYS * 24 * 60]

create_refresh_token(data) ==
    [sub |-> data.sub, email |-> data.email, role |-> data.role,
     exp |-> utcnow + REFRESH_TOKEN_EXPIRE_DAYS * 24 * 60]

\* The issued tokens of these users.
TokensOf(actors) == {tok \in tokens : tok.sub \in actors}

\* Mutant: the role is the one stored for the user by now.
get_current_user_stored(tok) ==
    [id |-> PyStr(tok.sub), email |-> tok.email,
     role |-> IF \E u \in users : u.id = tok.sub
              THEN (CHOOSE u \in users : u.id = tok.sub).role ELSE tok.role]

\* get_current_user: the dict the handlers receive for a presented token.
get_current_user(tok) == [id |-> PyStr(tok.sub), email |-> tok.email, role |-> tok.role]

\* ---------------------------------------------------------- grievance router
\* A request in flight: the handler (op), where it stands (pc), the actor of
\* get_current_user (user, role), the path parameter (arg), the request body
\* (data) and what the handler has loaded from the store (snap).
IdleReq ==
    [op |-> "idle", pc |-> "idle", user |-> None, role |-> "", arg |-> 0,
     data |-> <<>>, snap |-> <<>>]

InFlight(op, pc, current_user, arg, data, snap) ==
    [op |-> op, pc |-> pc, user |-> current_user.id, role |-> current_user.role,
     arg |-> arg, data |-> data, snap |-> snap]

Actor(req) == [id |-> req.user, role |-> req.role]

NoResponse == [op |-> "none", user |-> None, role |-> "", arg |-> 0, out |-> 0, body |-> <<>>]

\* The response of operation op called by current_user on resource arg.
Response(op, current_user, arg, code, body) ==
    [op |-> op, user |-> current_user.id, role |-> current_user.role, arg |-> arg,
     out |-> code, body |-> body]

\* The server takes a new request while fewer than MaxReq are in flight; the
\* request gets the first free slot (0: none is free).
FreeSlot ==
    IF \E s \in Slots : requests[s].pc = "idle"
    THEN CHOOSE s \in Slots : requests[s].pc = "idle" /\ \A t \in 1..(s - 1) : requests[t].pc # "idle"
    ELSE 0

\* The rows of a grievance in a grievance_updates table (Grievance.updates).
UpdatesIn(table, gid) == SelectSeq(table, LAMBDA u : u.grievance_id = gid)
UpdatesOf(gid) == UpdatesIn(grievance_updates, gid)

\* get_user_name: display name of a user id, None when there is no such user.
get_user_name(user_id) ==
    IF \E u \in users : u.id = user_id.v
    THEN (CHOOSE u \in users : u.id = user_id.v).display_name
    ELSE None

GrievanceUpdateResponse(update) ==
    [status |-> update.status, remark |-> update.remark,
     updated_by |-> [id |-> str(update.updated_by),
                     name |-> IF Truthy(get_user_name(str(update.updated_by)))
                              THEN get_user_name(str(update.updated_by))
                              ELSE PyStr("Unknown")]]

\* build_grievance_response of grievance gid as loaded from the given tables.
build_grievance_response(gtable, utable, gid) ==
    LET grievance == gtable[gid]
        ups == UpdatesIn(utable, gid)
    IN [id |-> gid,
        status |-> grievance.status,
        is_anonymous |-> grievance.is_anonymous,
        submitter_id |-> IF Truthy(grievance.submitter_id)
                         THEN str(grievance.submitter_id) ELSE None,
        submitter_name |-> IF Truthy(grievance.submitter_id) /\ ~grievance.is_anonymous
                           THEN get_user_name(str(grievance.submitter_id)) ELSE None,
        assigned_to |-> IF Truthy(grievance.assigned_to)
                        THEN str(grievance.assigned_to) ELSE None,
        updates |-> [i \in 1..Len(ups) |-> GrievanceUpdateResponse(ups[i])]]

\* Mutant: the caller is stored as submitter also for an anonymous grievance.
submitter_id_always(current_user, is_anonymous) == UUID(current_user.id.v)

\* The submitter stored for a new grievance (create_grievance, line 165).
submitter_id_for(current_user, is_anonymous) ==
    IF is_anonymous THEN None ELSE UUID(current_user.id.v)

\* create_grievance up to its first commit (lines 146-169): the grievance row
\* is stored and visible to every other request.
create_grievance(tok, category, is_anonymous) ==
    LET current_user == get_current_user(tok)
        r == FreeSlot
    IN
    /\ r # 0
    /\ IF category \notin GrievanceCategory
       THEN /\ response' = Response("create_grievance", current_user, 0,
                                    HTTP_400_BAD_REQUEST, <<>>)
            /\ UNCHANGED <<grievances, g_origin, requests>>
       ELSE /\ Len(grievances) < MaxGrievances
            /\ grievances' = Append(grievances,
                   [status |-> "SUBMITTED",
                    is_anonymous |-> is_anonymous,
                    submitter_id |-> submitter_id_for(current_user, is_anonymous),
                    assigned_to |-> None])
            /\ g_origin' = Append(g_origin,
                   [creator |-> current_user.id.v, role |-> current_user.role,
                    is_anonymous |-> is_anonymous])
            /\ requests' = [requests EXCEPT ![r] =
                   InFlight("create_grievance", "created", current_user,
                            Len(grievances) + 1, <<>>, <<>>)]
            /\ response' = NoResponse
    /\ UNCHANGED <<users, tokens, utcnow, taskVars, courseVars, oppVars, grievance_updates>>

\* create_grievance, second commit (lines 171-189): the initial update.
create_grievance_initial_update(r) ==
    /\ requests[r].op = "create_grievance" /\ requests[r].pc = "created"
    /\ grievance_updates' = Append(grievance_updates,
           [grievance_id |-> requests[r].arg, updated_by |-> UUID(requests[r].user.v),
            status |-> "SUBMITTED", remark |-> "Grievance submitted"])
    /\ response' = Response("create_grievance", Actor(requests[r]),
           requests[r].arg, HTTP_201_CREATED,
           <<build_grievance_response(grievances, grievance_updates', requests[r].arg)>>)
    /\ requests' = [requests EXCEPT ![r] = IdleReq]
    /\ UNCHANGED <<users, tokens, utcnow, taskVars, courseVars, oppVars, grievances, g_origin>>

\* The second commit raises (store unavailable): the request ends, the first
\* commit stays.
create_grievance_commit_fails(r) ==
    /\ requests[r].op = "create_grievance" /\ requests[r].pc = "created"
    /\ response' = Response("create_grievance", Actor(requests[r]),
           requests[r].arg, HTTP_500_INTERNAL_SERVER_ERROR, <<>>)
    /\ requests' = [requests EXCEPT ![r] = IdleReq]
    /\ UNCHANGED <<users, tokens, utcnow, taskVars, courseVars, oppVars, grievances, grievance_updates, g_origin>>

\* The rows list_grievances selects for the actor (lines 223-228).
list_visible(current_user, gid) ==
    current_user.role \in {"STUDENT", "FACULTY"}
        => \/ grievances[gid].submitter_id = UUID(current_user.id.v)
           \/ grievances[gid].is_anonymous

RECURSIVE ListResponses(_, _)
ListResponses(current_user, n) ==
    IF n = 0 THEN <<>>
    ELSE IF list_visible(current_user, n)
         THEN <<build_grievance_response(grievances, grievance_updates, n)>>
                  \o ListResponses(current_user, n - 1)
         ELSE ListResponses(current_user, n - 1)

list_grievances(tok) ==
    LET current_user == get_current_user(tok) IN
    /\ FreeSlot # 0
    /\ response' = Response("list_grievances", current_user, 0, HTTP_200_OK,
                            ListResponses(current_user, Len(grievances)))
    /\ UNCHANGED <<users, tokens, utcnow, taskVars, courseVars, oppVars, grievances, grievance_updates, g_origin, requests>>

\* The authorization check of get_grievance (lines 260-269).
get_visible(current_user, gid) ==
    current_user.role = "STUDENT"
        => \/ str(grievances[gid].submitter_id) = current_user.id
           \/ grievances[gid].is_anonymous

get_grievance(tok, gid) ==
    LET current_user == get_current_user(tok) IN
    /\ FreeSlot # 0
    /\ response' =
           IF gid > Len(grievances)
           THEN Response("get_grievance", current_user, gid, HTTP_404_NOT_FOUND, <<>>)
           ELSE IF ~get_visible(current_user, gid)
           THEN Response("get_grievance", current_user, gid, HTTP_403_FORBIDDEN, <<>>)
           ELSE Response("get_grievance", current_user, gid, HTTP_200_OK,
                    <<build_grievance_response(grievances, grievance_updates, gid)>>)
    /\ UNCHANGED <<users, tokens, utcnow, taskVars, courseVars, oppVars, grievances, grievance_updates, g_origin, requests>>

\* The status updates of an actor: in flight, and stored.
PendingUpdates(current_user) ==
    Cardinality({s \in Slots : /\ requests[s].op = "add_grievance_update"
                               /\ requests[s].user = current_user.id})
PostedUpdates(current_user) ==
    Len(SelectSeq(grievance_updates,
                  LAMBDA u : /\ u.remark # "Grievance submitted"
                             /\ u.updated_by = UUID(current_user.id.v)))

\* Mutant: no role is refused.
may_update_anyone(current_user) == TRUE

\* The role check of add_grievance_update (lines 283-290).
may_update_grievance(current_user) == current_user.role \in {"AUTHORITY", "ADMIN"}

\* add_grievance_update up to the validation of the status (lines 283-313): the
\* grievance row is loaded into the request's session.
add_grievance_update_load(tok, gid, new_status, remark) ==
    LET current_user == get_current_user(tok)
        r == FreeSlot
    IN
    /\ r # 0
    /\ IF ~may_update_grievance(current_user)
       THEN /\ response' = Response("add_grievance_update", current_user, gid,
                                    HTTP_403_FORBIDDEN, <<>>)
            /\ UNCHANGED requests
       ELSE IF gid > Len(grievances)
       THEN /\ response' = Response("add_grievance_update", current_user, gid,
                                    HTTP_404_NOT_FOUND, <<>>)
            /\ UNCHANGED requests
       ELSE IF new_status \notin GrievanceStatus
       THEN /\ response' = Response("add_grievance_update", current_user, gid,
                                    HTTP_400_BAD_REQUEST, <<>>)
            /\ UNCHANGED requests
       ELSE /\ PostedUpdates(current_user) + PendingUpdates(current_user) < MaxUpdates
            /\ requests' = [requests EXCEPT ![r] =
                   InFlight("add_grievance_update", "loaded", current_user, gid,
                            [status |-> new_status, remark |-> remark],
                            [assigned_to |-> grievances[gid].assigned_to])]
            /\ response' = NoResponse
    /\ UNCHANGED <<users, tokens, utcnow, taskVars, courseVars, oppVars, grievances, grievance_updates, g_origin>>

\* add_grievance_update, the commit (lines 315-339): the update row is inserted
\* and the grievance row written in one transaction.
add_grievance_update(r) ==
    LET gid == requests[r].arg IN
    /\ requests[r].op = "add_grievance_update" /\ requests[r].pc = "loaded"
    /\ grievance_updates' = Append(grievance_updates,
           [grievance_id |-> gid, updated_by |-> UUID(requests[r].user.v),
            status |-> requests[r].data.status, remark |-> requests[r].data.remark])
    /\ grievances' = [grievances EXCEPT
           ![gid].status = requests[r].data.status,
           ![gid].assigned_to = IF ~Truthy(requests[r].snap.assigned_to)
                                THEN requests[r].user ELSE @]
    /\ response' = Response("add_grievance_update",
           Actor(requests[r]), gid, HTTP_200_OK,
           <<build_grievance_response(grievances', grievance_updates', gid)>>)
    /\ requests' = [requests EXCEPT ![r] = IdleReq]
    /\ UNCHANGED <<users, tokens, utcnow, taskVars, courseVars, oppVars, g_origin>>

\* upload_grievance_photo (lines 342-367): checks only, nothing is stored.
upload_grievance_photo(tok, gid) ==
    LET current_user == get_current_user(tok) IN
    /\ FreeSlot # 0
    /\ response' =
           IF gid > Len(grievances)
           THEN Response("upload_grievance_photo", current_user, gid, HTTP_404_NOT_FOUND, <<>>)
           ELSE IF str(grievances[gid].submitter_id) # current_user.id
           THEN Response("upload_grievance_photo", current_user, gid, HTTP_403_FORBIDDEN, <<>>)
           ELSE Response("upload_grievance_photo", current_user, gid, HTTP_200_OK, <<>>)
    /\ UNCHANGED <<users, tokens, utcnow, taskVars, courseVars, oppVars, grievances, grievance_updates, g_origin, requests>>

StatusInputs == {"RESOLVED", "CLOSED"}
RemarkInputs == {"Looking into it"}
GidInputs == 1..(MaxGrievances + 1)

\* The users whose tokens drive the grievance router.
GrievanceActors == {"student1", "authority1"}

Init ==
    /\ users = TEST_USERS
    /\ utcnow = 0
    /\ tokens = {create_access_token(token_data(u)) : u \in TEST_USERS}
    /\ grievances = <<>>
    /\ grievance_updates = <<>>
    /\ g_origin = <<>>
    /\ courses = <<>>
    /\ enrollments = <<>>
    /\ resources = <<>>
    /\ opportunities = <<>>
    /\ applications = <<>>
    /\ today = 0
    /\ tasks = {}
    /\ tasks_created = 0
    /\ requests = [r \in Slots |-> IdleReq]
    /\ response = NoResponse


NextGrievance ==
    \/ \E tok \in TokensOf(GrievanceActors), c \in {"HOSTEL", "PARKING"}, a \in BOOLEAN :
           create_grievance(tok, c, a)
    \/ \E r \in Slots : create_grievance_initial_update(r)
    \/ \E r \in Slots : create_grievance_commit_fails(r)
    \/ \E tok \in TokensOf(GrievanceActors) : list_grievances(tok)
    \/ \E tok \in TokensOf(GrievanceActors), gid \in GidInputs : get_grievance(tok, gid)
    \/ \E tok \in TokensOf(GrievanceActors), gid \in GidInputs, s \in StatusInputs,
          m \in RemarkInputs :
           add_grievance_update_load(tok, gid, s, m)
    \/ \E r \in Slots : add_grievance_update(r)
    \/ \E tok \in TokensOf(GrievanceActors), gid \in GidInputs : upload_grievance_photo(tok, gid)

SpecGrievance == Init /\ [][NextGrievance]_vars

\* Updating grievances: a student's grievance, updates attempted by the roles
\* STUDENT, FACULTY and AUTHORITY.

NextGrievanceUpdate ==
    \/ \E tok \in tokens, a \in BOOLEAN :
           tok.sub = "student1" /\ create_grievance(tok, "HOSTEL", a)
    \/ \E r \in Slots : create_grievance_initial_update(r)
    \/ \E tok \in TokensOf({"student1", "faculty1", "authority1"}),
          gid \in GidInputs, s \in StatusInputs, m \in RemarkInputs :
           add_grievance_update_load(tok, gid, s, m)
    \/ \E r \in Slots : add_grievance_update(r)

SpecGrievanceUpdate == Init /\ [][NextGrievanceUpdate]_vars

\* Working on a grievance: a student's grievance, updated by an AUTHORITY and
\* an ADMIN actor side by side.

NextAssign ==
    \/ \E tok \in tokens : tok.sub = "student1" /\ create_grievance(tok, "HOSTEL", FALSE)
    \/ \E r \in Slots : create_grievance_initial_update(r)
    \/ \E tok \in TokensOf({"authority1", "admin"}), gid \in GidInputs, m \in RemarkInputs :
           add_grievance_update_load(tok, gid, "IN_PROGRESS", m)
    \/ \E r \in Slots : add_grievance_update(r)

SpecAssign == Init /\ [][NextAssign]_vars

\* Reading grievances: every role creates and reads, no status updates.
ReadActors == {"student1", "student2", "faculty1", "authority1", "admin"}

NextGrievanceRead ==
    \/ \E tok \in TokensOf(ReadActors), a \in BOOLEAN : create_grievance(tok, "HOSTEL", a)
    \/ \E r \in Slots : create_grievance_initial_update(r)
    \/ \E tok \in TokensOf(ReadActors) : list_grievances(tok)
    \/ \E tok \in TokensOf(ReadActors), gid \in GidInputs : get_grievance(tok, gid)

SpecGrievanceRead == Init /\ [][NextGrievanceRead]_vars

\* ------------------------------------------------------------ course router
\* Result.scalar_one_or_none() on a result of n rows: no row, the row, or the
\* exception MultipleResultsFound.
scalar_one_or_none(n) ==
    IF n = 0 THEN "None" ELSE IF n = 1 THEN "one" ELSE "MultipleResultsFound"

CoursesWithCode(code) == {c \in 1..Len(courses) : courses[c].code = code}

\* The unique index on Course.code (models/academic.py line 29): whether the
\* store accepts a new row with this code.
course_code_unique(code) == CoursesWithCode(code) = {}

\* create_course up to its pre-check (lines 159-172).
create_course_check(tok, code) ==
    LET current_user == get_current_user(tok)
        r == FreeSlot
    IN
    /\ r # 0
    /\ IF current_user.role \notin {"FACULTY", "ADMIN"}
       THEN /\ response' = Response("create_course", current_user, 0,
                                    HTTP_403_FORBIDDEN, <<code>>)
            /\ UNCHANGED requests
       ELSE IF scalar_one_or_none(Cardinality(CoursesWithCode(code))) # "None"
       THEN /\ response' = Response("create_course", current_user, 0,
                                    HTTP_400_BAD_REQUEST, <<code>>)
            /\ UNCHANGED requests
       ELSE /\ Len(courses) < MaxCourses
            /\ requests' = [requests EXCEPT ![r] =
                   InFlight("create_course", "checked", current_user, 0,
                            [code |-> code], <<>>)]
            /\ response' = NoResponse
    /\ UNCHANGED <<users, tokens, utcnow, taskVars, grievanceVars, oppVars, courseVars>>

\* create_course, the commit (lines 174-203).  The insert of a code that is
\* stored by now raises IntegrityError, which no handler catches.
create_course(r) ==
    LET code == requests[r].data.code IN
    /\ requests[r].op = "create_course" /\ requests[r].pc = "checked"
    /\ IF course_code_unique(code)
       THEN /\ courses' = Append(courses,
                   [code |-> code,
                    professor_id |-> IF requests[r].role = "FACULTY"
                                     THEN UUID(requests[r].user.v) ELSE None])
            /\ response' = Response("create_course", Actor(requests[r]),
                                    Len(courses) + 1, HTTP_201_CREATED, <<code>>)
       ELSE /\ UNCHANGED courses
            /\ response' = Response("create_course", Actor(requests[r]), 0,
                                    HTTP_500_INTERNAL_SERVER_ERROR, <<code>>)
    /\ requests' = [requests EXCEPT ![r] = IdleReq]
    /\ UNCHANGED <<users, tokens, utcnow, taskVars, grievanceVars, oppVars, enrollments, resources>>

\* The rows the "already enrolled" query returns (lines 295-300).
EnrollmentsOf(student_id, course_id) ==
    {e \in 1..Len(enrollments) :
        /\ enrollments[e].student_id = UUID(student_id.v)
        /\ enrollments[e].course_id = course_id}

PendingEnrollments == Cardinality({s \in Slots : requests[s].op = "enroll_in_course"})

\* enroll_in_course up to the "already enrolled" check (lines 277-305).
enroll_in_course_check(tok, course_id) ==
    LET current_user == get_current_user(tok)
        r == FreeSlot
        found == scalar_one_or_none(Cardinality(EnrollmentsOf(current_user.id, course_id)))
    IN
    /\ r # 0
    /\ IF current_user.role # "STUDENT"
       THEN /\ response' = Response("enroll_in_course", current_user, course_id,
                                    HTTP_403_FORBIDDEN, <<>>)
            /\ UNCHANGED requests
       ELSE IF course_id > Len(courses)
       THEN /\ response' = Response("enroll_in_course", current_user, course_id,
                                    HTTP_404_NOT_FOUND, <<>>)
            /\ UNCHANGED requests
       ELSE IF found = "MultipleResultsFound"
       THEN /\ response' = Response("enroll_in_course", current_user, course_id,
                                    HTTP_500_INTERNAL_SERVER_ERROR, <<>>)
            /\ UNCHANGED requests
       ELSE IF found = "one"
       THEN /\ response' = Response("enroll_in_course", current_user, course_id,
                                    HTTP_400_BAD_REQUEST, <<>>)
            /\ UNCHANGED requests
       ELSE /\ Len(enrollments) + PendingEnrollments < MaxEnrollments
            /\ requests' = [requests EXCEPT ![r] =
                   InFlight("enroll_in_course", "checked", current_user, course_id,
                            <<>>, <<>>)]
            /\ response' = NoResponse
    /\ UNCHANGED <<users, tokens, utcnow, taskVars, grievanceVars, oppVars, courseVars>>

\* enroll_in_course, the commit (lines 307-319).  The table declares no unique
\* constraint on (student_id, course_id) (models/academic.py lines 47-64), so
\* the store accepts the row whatever is stored by now.
enroll_in_course(r) ==
    /\ requests[r].op = "enroll_in_course" /\ requests[r].pc = "checked"
    /\ enrollments' = Append(enrollments,
           [student_id |-> UUID(requests[r].user.v), course_id |-> requests[r].arg])
    /\ response' = Response("enroll_in_course", Actor(requests[r]),
                            requests[r].arg, HTTP_200_OK, <<>>)
    /\ requests' = [requests EXCEPT ![r] = IdleReq]
    /\ UNCHANGED <<users, tokens, utcnow, taskVars, grievanceVars, oppVars, courses, resources>>

CodeInputs == {"CS101", "MA201"}
CourseIdInputs == 1..(MaxCourses + 1)
CourseActors == {"faculty1", "student1", "student2"}

NextCourse ==
    \/ \E tok \in TokensOf(CourseActors), code \in CodeInputs : create_course_check(tok, code)
    \/ \E r \in Slots : create_course(r)
    \/ \E tok \in TokensOf(CourseActors), c \in CourseIdInputs : enroll_in_course_check(tok, c)
    \/ \E r \in Slots : enroll_in_course(r)

SpecCourse == Init /\ [][NextCourse]_vars

\* get_course (lines 206-267): the course, then for a student the enrollment
\* query whose result decides, together with professor and admin.
get_course(tok, course_id) ==
    LET current_user == get_current_user(tok)
        is_professor == str(courses[course_id].professor_id) = current_user.id
        is_admin == current_user.role = "ADMIN"
        found == IF current_user.role = "STUDENT"
                 THEN scalar_one_or_none(Cardinality(EnrollmentsOf(current_user.id, course_id)))
                 ELSE "None"
        is_enrolled == found = "one"
        reply(code) == response' = Response("get_course", current_user, course_id, code, <<>>)
    IN
    /\ FreeSlot # 0
    /\ IF course_id > Len(courses)
       THEN reply(HTTP_404_NOT_FOUND)
       ELSE IF found = "MultipleResultsFound"
       THEN reply(HTTP_500_INTERNAL_SERVER_ERROR)
       ELSE IF ~(is_professor \/ is_enrolled \/ is_admin)
       THEN reply(HTTP_403_FORBIDDEN)
       ELSE reply(HTTP_200_OK)
    /\ UNCHANGED <<users, tokens, utcnow, taskVars, grievanceVars, courseVars, oppVars, requests>>

\* The course router with the course detail read, called by every seeded user.
NextCourseRead ==
    \/ NextCourse
    \/ \E tok \in tokens, c \in CourseIdInputs : get_course(tok, c)

SpecCourseRead == Init /\ [][NextCourseRead]_vars

ResourceType == {"PAPER", "NOTES", "OTHER"}

\* The NOT NULL columns of Resource a handler may leave out (models/academic.py
\* lines 74 and 76): whether the store accepts the row.
resource_not_null(resource) == resource.year # None /\ resource.file_path # None

\* create_resource (courses.py lines 366-440); resource_data gives type and
\* year.  The row is built without file_path (lines 404-413), and the commit
\* of a row the store rejects raises IntegrityError, which no handler catches.
create_resource(tok, course_id, resource_data) ==
    LET current_user == get_current_user(tok)
        resource == [course_id |-> course_id, uploader_id |-> UUID(current_user.id.v),
                     type |-> resource_data.type, year |-> resource_data.year,
                     file_path |-> None]
        reply(code) ==
            response' = Response("create_resource", current_user, course_id, code,
                                 <<resource_data>>)
    IN
    /\ FreeSlot # 0
    /\ IF course_id > Len(courses)
       THEN reply(HTTP_404_NOT_FOUND) /\ UNCHANGED resources
       ELSE IF /\ str(courses[course_id].professor_id) # current_user.id
               /\ current_user.role # "ADMIN"
       THEN reply(HTTP_403_FORBIDDEN) /\ UNCHANGED resources
       ELSE IF resource_data.type \notin ResourceType
       THEN reply(HTTP_400_BAD_REQUEST) /\ UNCHANGED resources
       ELSE IF ~resource_not_null(resource)
       THEN reply(HTTP_500_INTERNAL_SERVER_ERROR) /\ UNCHANGED resources
       ELSE /\ resources' = Append(resources, resource)
            /\ reply(HTTP_200_OK)
    /\ UNCHANGED <<users, tokens, utcnow, taskVars, grievanceVars, oppVars, courses,
                   enrollments, requests>>

ALLOWED_EXTENSIONS ==
    {".pdf", ".doc", ".docx", ".jpg", ".jpeg", ".png", ".gif", ".mp4", ".zip"}

\* is_allowed_file (storage.py lines 60-62); a filename is <<stem, suffix>>,
\* the suffix in lower case.
is_allowed_file(filename) == filename[2] \in ALLOWED_EXTENSIONS

\* upload_course_resource (files.py lines 89-155) for a file within
\* MAX_FILE_SIZE.  The row is built without year (lines 138-145).
upload_course_resource(tok, course_id, filename) ==
    LET current_user == get_current_user(tok)
        resource == [course_id |-> course_id, uploader_id |-> UUID(current_user.id.v),
                     type |-> "OTHER", year |-> None,
                     file_path |-> PyStr(<<"/uploads/courses/", filename[2]>>)]
        reply(code) ==
            response' = Response("upload_course_resource", current_user, course_id, code,
                                 <<filename>>)
    IN
    /\ FreeSlot # 0
    /\ IF ~is_allowed_file(filename)
       THEN reply(HTTP_400_BAD_REQUEST) /\ UNCHANGED resources
       ELSE IF course_id > Len(courses)
       THEN reply(HTTP_404_NOT_FOUND) /\ UNCHANGED resources
       ELSE IF /\ str(courses[course_id].professor_id) # current_user.id
               /\ current_user.role # "ADMIN"
       THEN reply(HTTP_403_FORBIDDEN) /\ UNCHANGED resources
       ELSE IF ~resource_not_null(resource)
       THEN reply(HTTP_500_INTERNAL_SERVER_ERROR) /\ UNCHANGED resources
       ELSE /\ resources' = Append(resources, resource)
            /\ reply(HTTP_200_OK)
    /\ UNCHANGED <<users, tokens, utcnow, taskVars, grievanceVars, oppVars, courses,
                   enrollments, requests>>


\* ------------------------------------------------------- opportunity router
\* datetime.date / datetime.datetime values, by their day.
Date(d) == [t |-> "date", v |-> d]
DateTime(d) == [t |-> "datetime", v |-> d]

\* date.today()
date_today == Date(today)

\* a < b between python date/datetime values: ordering is defined between two
\* values of the same type; datetime < date raises TypeError.
py_lt_by_day(a, b) == IF a.v < b.v THEN "True" ELSE "False"
py_lt(a, b) ==
    IF a.t # b.t THEN "TypeError" ELSE IF a.v < b.v THEN "True" ELSE "False"

\* What a DateTime column gives back for the value written to it
\* (models/opportunity.py line 46): a datetime.
DateTimeColumn(value) == DateTime(value.v)

OpportunityType == {"RESEARCH", "INTERNSHIP"}

\* seed.py create_sample_opportunities: an opportunity of the first faculty
\* user, its deadline a datetime after now (the next day of the model's clock),
\* and one application from each student.
create_sample_opportunities ==
    LET faculties == {u \in users : u.role = "FACULTY"}
        students == {u \in users : u.role = "STUDENT"}
        creator == CHOOSE u \in faculties : u.id = "faculty1"
        first == CHOOSE u \in students : u.id = "student1"
        second == CHOOSE u \in students : u.id = "student2"
    IN
    /\ opportunities = <<>> /\ applications = <<>>
    /\ opportunities' = <<[faculty_id |-> UUID(creator.id), type |-> "RESEARCH",
                           deadline |-> DateTimeColumn(DateTime(today + 1)),
                           is_open |-> TRUE]>>
    /\ applications' = <<[opportunity_id |-> 1, student_id |-> UUID(first.id),
                          status |-> "SUBMITTED"],
                         [opportunity_id |-> 1, student_id |-> UUID(second.id),
                          status |-> "UNDER_REVIEW"]>>
    /\ response' = NoResponse
    /\ UNCHANGED <<users, tokens, utcnow, taskVars, grievanceVars, courseVars, today, requests>>

\* The wall clock reaches the next day.
tick ==
    /\ today < MaxDay
    /\ today' = today + 1
    /\ response' = NoResponse
    /\ UNCHANGED <<users, tokens, utcnow, taskVars, grievanceVars, courseVars, opportunities,
                   applications, requests>>

\* create_opportunity (lines 153-222); deadline is the body's date.
create_opportunity(tok, type, deadline) ==
    LET current_user == get_current_user(tok) IN
    /\ IF current_user.role \notin {"FACULTY", "AUTHORITY"}
       THEN /\ response' = Response("create_opportunity", current_user, 0,
                                    HTTP_403_FORBIDDEN, <<>>)
            /\ UNCHANGED opportunities
       ELSE IF type \notin OpportunityType
       THEN /\ response' = Response("create_opportunity", current_user, 0,
                                    HTTP_400_BAD_REQUEST, <<"Invalid opportunity type">>)
            /\ UNCHANGED opportunities
       ELSE IF py_lt(deadline, date_today) = "True"
       THEN /\ response' = Response("create_opportunity", current_user, 0,
                                    HTTP_400_BAD_REQUEST, <<"Deadline must be in the future">>)
            /\ UNCHANGED opportunities
       ELSE /\ Len(opportunities) < MaxOpportunities
            /\ opportunities' = Append(opportunities,
                   [faculty_id |-> UUID(current_user.id.v), type |-> type,
                    deadline |-> DateTimeColumn(deadline), is_open |-> TRUE])
            /\ response' = Response("create_opportunity", current_user,
                                    Len(opportunities) + 1, HTTP_201_CREATED, <<>>)
    /\ UNCHANGED <<users, tokens, utcnow, taskVars, grievanceVars, courseVars, applications, today, requests>>

\* Mutant: the handler flips the flag.
toggled(opportunity) == [opportunity EXCEPT !.is_open = ~@]

\* opportunity.is_open = False (line 294).
closed(opportunity) == [opportunity EXCEPT !.is_open = FALSE]

\* close_opportunity (lines 266-297).  faculty_id is a uuid.UUID,
\* current_user["id"] a str.
close_opportunity(tok, opportunity_id) ==
    LET current_user == get_current_user(tok) IN
    /\ IF opportunity_id > Len(opportunities)
       THEN /\ response' = Response("close_opportunity", current_user, opportunity_id,
                                    HTTP_404_NOT_FOUND, <<>>)
            /\ UNCHANGED opportunities
       ELSE IF /\ opportunities[opportunity_id].faculty_id # current_user.id
               /\ current_user.role # "ADMIN"
       THEN /\ response' = Response("close_opportunity", current_user, opportunity_id,
                                    HTTP_403_FORBIDDEN, <<>>)
            /\ UNCHANGED opportunities
       ELSE /\ opportunities' = [opportunities EXCEPT
                   ![opportunity_id] = closed(opportunities[opportunity_id])]
            /\ response' = Response("close_opportunity", current_user, opportunity_id,
                                    HTTP_200_OK, <<>>)
    /\ UNCHANGED <<users, tokens, utcnow, taskVars, grievanceVars, courseVars, applications, today, requests>>

\* The rows the "already applied" query returns (lines 340-345).
ApplicationsOf(student_id, opportunity_id) ==
    {a \in 1..Len(applications) :
        /\ applications[a].opportunity_id = opportunity_id
        /\ applications[a].student_id = UUID(student_id.v)}

ApplicationsBeingInserted ==
    Cardinality({s \in Slots : requests[s].op = "apply_to_opportunity"
                               /\ requests[s].pc = "checked"})

\* apply_to_opportunity up to the load of the opportunity (lines 307-325).
apply_to_opportunity_load(tok, opportunity_id) ==
    LET current_user == get_current_user(tok)
        r == FreeSlot
    IN
    /\ r # 0
    /\ IF current_user.role # "STUDENT"
       THEN /\ response' = Response("apply_to_opportunity", current_user, opportunity_id,
                                    HTTP_403_FORBIDDEN, <<>>)
            /\ UNCHANGED requests
       ELSE IF opportunity_id > Len(opportunities)
       THEN /\ response' = Response("apply_to_opportunity", current_user, opportunity_id,
                                    HTTP_404_NOT_FOUND, <<>>)
            /\ UNCHANGED requests
       ELSE /\ requests' = [requests EXCEPT ![r] =
                   InFlight("apply_to_opportunity", "loaded", current_user, opportunity_id,
                            <<>>, opportunities[opportunity_id])]
            /\ response' = NoResponse
    /\ UNCHANGED <<users, tokens, utcnow, taskVars, grievanceVars, courseVars, oppVars>>

\* apply_to_opportunity from the loaded opportunity on (lines 327-379): the
\* checks on the loaded row and the "already applied" query, then the commit.
apply_to_opportunity(r) ==
    LET opportunity == requests[r].snap
        current_user == Actor(requests[r])
        opportunity_id == requests[r].arg
        found == scalar_one_or_none(Cardinality(ApplicationsOf(current_user.id, opportunity_id)))
        reply(code, detail) ==
            /\ response' = Response("apply_to_opportunity", current_user, opportunity_id,
                                    code, <<detail>>)
            /\ requests' = [requests EXCEPT ![r] = IdleReq]
            /\ UNCHANGED applications
    IN
    /\ requests[r].op = "apply_to_opportunity"
    /\ IF requests[r].pc = "loaded"
       THEN IF ~opportunity.is_open
            THEN reply(HTTP_400_BAD_REQUEST, "This opportunity is closed")
            ELSE IF py_lt(opportunity.deadline, date_today) = "TypeError"
            THEN reply(HTTP_500_INTERNAL_SERVER_ERROR, "TypeError")
            ELSE IF py_lt(opportunity.deadline, date_today) = "True"
            THEN reply(HTTP_400_BAD_REQUEST, "Application deadline has passed")
            ELSE IF found = "MultipleResultsFound"
            THEN reply(HTTP_500_INTERNAL_SERVER_ERROR, "MultipleResultsFound")
            ELSE IF found = "one"
            THEN reply(HTTP_400_BAD_REQUEST, "Already applied to this opportunity")
            ELSE /\ Len(applications) + ApplicationsBeingInserted < MaxApplications
                 /\ requests' = [requests EXCEPT ![r].pc = "checked"]
                 /\ response' = NoResponse
                 /\ UNCHANGED applications
       ELSE /\ requests[r].pc = "checked"
            /\ applications' = Append(applications,
                   [opportunity_id |-> opportunity_id,
                    student_id |-> UUID(current_user.id.v), status |-> "SUBMITTED"])
            /\ response' = Response("apply_to_opportunity", current_user, opportunity_id,
                                    HTTP_200_OK, <<"SUBMITTED">>)
            /\ requests' = [requests EXCEPT ![r] = IdleReq]
    /\ UNCHANGED <<users, tokens, utcnow, taskVars, grievanceVars, courseVars, opportunities, today>>

DeadlineInputs == {Date(0), Date(MaxDay)}
OpportunityIdInputs == 1..(MaxOpportunities + 1)
OppActors == {"faculty1", "student1", "admin"}

NextOpp ==
    \/ create_sample_opportunities
    \/ tick
    \/ \E tok \in TokensOf(OppActors), type \in {"RESEARCH", "SEMINAR"},
          deadline \in DeadlineInputs :
           create_opportunity(tok, type, deadline)
    \/ \E tok \in TokensOf(OppActors), o \in OpportunityIdInputs : close_opportunity(tok, o)
    \/ \E tok \in TokensOf(OppActors), o \in OpportunityIdInputs : apply_to_opportunity_load(tok, o)
    \/ \E r \in Slots : apply_to_opportunity(r)

SpecOpp == Init /\ [][NextOpp]_vars

ApplicationStatus == {"SUBMITTED", "UNDER_REVIEW", "SHORTLISTED", "ACCEPTED", "REJECTED"}

\* The applications of an opportunity, latest first (lines 411-417).
RECURSIVE ApplicationResponses(_, _)
ApplicationResponses(opportunity_id, n) ==
    IF n = 0 THEN <<>>
    ELSE IF applications[n].opportunity_id = opportunity_id
         THEN <<[id |-> n, student_id |-> str(applications[n].student_id),
                 status |-> applications[n].status]>>
                  \o ApplicationResponses(opportunity_id, n - 1)
         ELSE ApplicationResponses(opportunity_id, n - 1)

\* list_opportunity_applications (lines 382-431).
list_opportunity_applications(tok, opportunity_id) ==
    LET current_user == get_current_user(tok) IN
    /\ FreeSlot # 0
    /\ response' =
           IF opportunity_id > Len(opportunities)
           THEN Response("list_opportunity_applications", current_user, opportunity_id,
                         HTTP_404_NOT_FOUND, <<>>)
           ELSE IF /\ opportunities[opportunity_id].faculty_id # current_user.id
                   /\ current_user.role # "ADMIN"
           THEN Response("list_opportunity_applications", current_user, opportunity_id,
                         HTTP_403_FORBIDDEN, <<>>)
           ELSE Response("list_opportunity_applications", current_user, opportunity_id,
                         HTTP_200_OK,
                         ApplicationResponses(opportunity_id, Len(applications)))
    /\ UNCHANGED <<users, tokens, utcnow, taskVars, grievanceVars, courseVars, oppVars, requests>>

\* update_application_status (lines 434-491).
update_application_status(tok, application_id, new_status) ==
    LET current_user == get_current_user(tok)
        reply(code) ==
            response' = Response("update_application_status", current_user,
                                 application_id, code, <<new_status>>)
    IN
    /\ FreeSlot # 0
    /\ IF application_id > Len(applications)
       THEN reply(HTTP_404_NOT_FOUND) /\ UNCHANGED applications
       ELSE IF /\ opportunities[applications[application_id].opportunity_id].faculty_id
                      # current_user.id
               /\ current_user.role # "ADMIN"
       THEN reply(HTTP_403_FORBIDDEN) /\ UNCHANGED applications
       ELSE IF new_status \notin ApplicationStatus
       THEN reply(HTTP_400_BAD_REQUEST) /\ UNCHANGED applications
       ELSE /\ applications' = [applications EXCEPT ![application_id].status = new_status]
            /\ reply(HTTP_200_OK)
    /\ UNCHANGED <<users, tokens, utcnow, taskVars, grievanceVars, courseVars, opportunities, today, requests>>

ApplicationStatusInputs == {"ACCEPTED", "REJECTED", "WAITLISTED"}
ApplicationIdInputs == 1..(MaxApplications + 1)

\* Handling the applications of the seeded opportunity.
NextApplications ==
    \/ create_sample_opportunities
    \/ \E tok \in TokensOf({"faculty1", "student1", "authority1", "admin"}),
          o \in OpportunityIdInputs :
           list_opportunity_applications(tok, o)
    \/ \E tok \in TokensOf({"faculty1", "student1", "authority1", "admin"}),
          a \in ApplicationIdInputs, st \in ApplicationStatusInputs :
           update_application_status(tok, a, st)

SpecApplications == Init /\ [][NextApplications]_vars

\* Status changes of both workflows: a student's grievance updated by an
\* AUTHORITY and an ADMIN actor, and the seeded applications updated by the
\* opportunity's creator and an ADMIN actor, to every status.  The workflows
\* share no state: a behaviour works on one of them.

NextTransitions ==
    \/ \E tok \in tokens :
           /\ tok.sub = "student1" /\ opportunities = <<>>
           /\ create_grievance(tok, "HOSTEL", FALSE)
    \/ \E r \in Slots : create_grievance_initial_update(r)
    \/ \E tok \in TokensOf({"authority1", "admin"}),
          gid \in GidInputs, s \in GrievanceStatus, m \in RemarkInputs :
           add_grievance_update_load(tok, gid, s, m)
    \/ \E r \in Slots : add_grievance_update(r)
    \/ grievances = <<>> /\ create_sample_opportunities
    \/ \E tok \in TokensOf({"faculty1", "admin"}),
          a \in ApplicationIdInputs, st \in ApplicationStatus :
           update_application_status(tok, a, st)

SpecTransitions == Init /\ [][NextTransitions]_vars

\* -------------------------------------------------------------- task tracker
TaskStatus == {"PENDING", "IN_PROGRESS", "COMPLETED"}

Min(a, b) == IF a < b THEN a ELSE b
Max(a, b) == IF a > b THEN a ELSE b

TaskResponse(task) ==
    [id |-> task.id, student_id |-> str(task.student_id), status |-> task.status,
     progress |-> task.progress]

\* The tasks of id up to n, latest first (order_by(desc(Task.created_at))).
RECURSIVE TaskResponses(_, _)
TaskResponses(rows, n) ==
    IF n = 0 THEN <<>>
    ELSE IF \E t \in rows : t.id = n
         THEN <<TaskResponse(CHOOSE t \in rows : t.id = n)>> \o TaskResponses(rows, n - 1)
         ELSE TaskResponses(rows, n - 1)

\* list_my_tasks (lines 526-559), without the status filter.
list_my_tasks(tok) ==
    LET current_user == get_current_user(tok) IN
    /\ FreeSlot # 0
    /\ response' = Response("list_my_tasks", current_user, 0, HTTP_200_OK,
           TaskResponses({t \in tasks : t.student_id = UUID(current_user.id.v)},
                         tasks_created))
    /\ UNCHANGED <<users, tokens, utcnow, grievanceVars, courseVars, oppVars, taskVars, requests>>

\* TaskCreate (lines 75-79): the request body as the handler receives it.  The
\* schema declares title, description, category and deadline; any other key
\* of the body, progress included, is dropped when the body is parsed.
TaskCreate(body) == [title |-> body.title]

\* create_task (lines 562-596); body is the JSON body of the request.  The row
\* is built with status PENDING and progress 0 (lines 576-577).
create_task(tok, body) ==
    LET current_user == get_current_user(tok)
        task_data == TaskCreate(body)
        task == [id |-> tasks_created + 1, student_id |-> UUID(current_user.id.v),
                 title |-> task_data.title, status |-> "PENDING", progress |-> 0]
    IN
    /\ FreeSlot # 0
    /\ tasks_created < MaxTasks
    /\ tasks' = tasks \cup {task}
    /\ tasks_created' = tasks_created + 1
    /\ response' = Response("create_task", current_user, task.id, HTTP_201_CREATED,
                            <<TaskResponse(task)>>)
    /\ UNCHANGED <<users, tokens, utcnow, grievanceVars, courseVars, oppVars, requests>>

\* Mutant: the task is looked up by its id alone.
TaskById(current_user, task_id) == {t \in tasks : t.id = task_id}

\* The task update_task and delete_task load: by id and owner (lines 607-611,
\* 660-664).
TaskOfUser(current_user, task_id) ==
    {t \in tasks : t.id = task_id /\ t.student_id = UUID(current_user.id.v)}

\* update_task (lines 599-650); task_data gives status and progress, each
\* None when left out.
update_task(tok, task_id, task_data) ==
    LET current_user == get_current_user(tok)
        found == TaskOfUser(current_user, task_id)
        task == CHOOSE t \in found : TRUE
        updated == [task EXCEPT
            !.progress = IF Truthy(task_data.progress)
                         THEN Max(0, Min(100, task_data.progress.v)) ELSE @,
            !.status = IF Truthy(task_data.status) THEN task_data.status.v ELSE @]
    IN
    /\ FreeSlot # 0
    /\ IF scalar_one_or_none(Cardinality(found)) = "None"
       THEN /\ response' = Response("update_task", current_user, task_id,
                                    HTTP_404_NOT_FOUND, <<>>)
            /\ UNCHANGED tasks
       ELSE IF Truthy(task_data.status) /\ task_data.status.v \notin TaskStatus
       THEN /\ response' = Response("update_task", current_user, task_id,
                                    HTTP_400_BAD_REQUEST, <<>>)
            /\ UNCHANGED tasks
       ELSE /\ tasks' = (tasks \ {task}) \cup {updated}
            /\ response' = Response("update_task", current_user, task_id,
                                    HTTP_200_OK, <<TaskResponse(updated)>>)
    /\ UNCHANGED <<users, tokens, utcnow, grievanceVars, courseVars, oppVars, tasks_created, requests>>

\* delete_task (lines 653-676).
delete_task(tok, task_id) ==
    LET current_user == get_current_user(tok)
        found == TaskOfUser(current_user, task_id)
    IN
    /\ FreeSlot # 0
    /\ IF scalar_one_or_none(Cardinality(found)) = "None"
       THEN /\ response' = Response("delete_task", current_user, task_id,
                                    HTTP_404_NOT_FOUND, <<>>)
            /\ UNCHANGED tasks
       ELSE /\ tasks' = tasks \ found
            /\ response' = Response("delete_task", current_user, task_id,
                                    HTTP_200_OK, <<>>)
    /\ UNCHANGED <<users, tokens, utcnow, grievanceVars, courseVars, oppVars, tasks_created, requests>>

TaskIdInputs == 1..(MaxTasks + 1)
TaskUpdateInputs ==
    [status : {None, PyStr("COMPLETED"), PyStr("DONE")},
     progress : {None, PyInt(150), PyInt(-5)}]
TaskCreateInputs == [title : {"Read paper"}, progress : {None, PyInt(150), PyInt(-5)}]
TaskActors == {"student1", "student2", "admin"}

NextTask ==
    \/ \E tok \in TokensOf(TaskActors) : list_my_tasks(tok)
    \/ \E tok \in TokensOf(TaskActors), b \in TaskCreateInputs : create_task(tok, b)
    \/ \E tok \in TokensOf(TaskActors), t \in TaskIdInputs, d \in TaskUpdateInputs :
           update_task(tok, t, d)
    \/ \E tok \in TokensOf(TaskActors), t \in TaskIdInputs : delete_task(tok, t)

SpecTask == Init /\ [][NextTask]_vars

\* -------------------------------------------------------------- auth router
\* str.endswith on an email given as its sequence of parts.
endswith(s, suffix) ==
    /\ Len(suffix) <= Len(s)
    /\ SubSeq(s, Len(s) - Len(suffix) + 1, Len(s)) = suffix

is_valid_student_email(email) == endswith(email, <<"@", "students", ".", "iitmandi.ac.in">>)

is_institute_email(email) == endswith(email, <<"iitmandi.ac.in">>)
is_valid_staff_email(email) == endswith(email, <<"@", "iitmandi.ac.in">>)

\* Mutant: every email is accepted for every role.
accept_any_email(email, role) == TRUE

validate_email_for_role(email, role) ==
    IF role = "STUDENT" THEN is_valid_student_email(email) ELSE is_valid_staff_email(email)

UsersWithEmail(email) == {u \in users : u.email = email}

\* The unique index on User.email (models/user.py line 21): whether the store
\* accepts a new row with this email.
user_email_unique(email) == UsersWithEmail(email) = {}

NewUsers == users \ TEST_USERS

\* The caller of register: nobody is authenticated; the role is the body's.
Registrant(role) == [id |-> None, role |-> role]

\* register up to the existing-user check and the construction of the row
\* (lines 50-94).
\* Mutant: every role may be chosen at registration.
any_role(role) == TRUE

\* register, lines 51-57: the roles a registrant may give themselves.
self_assignable(role) == role # "ADMIN"

register_check(email, role) ==
    LET r == FreeSlot
        reply(code, detail) ==
            /\ response' = Response("register", Registrant(role), 0, code, <<email, detail>>)
            /\ UNCHANGED requests
    IN
    /\ r # 0
    /\ IF ~self_assignable(role)
       THEN reply(HTTP_403_FORBIDDEN, "ADMIN role cannot be self-assigned")
       ELSE IF ~validate_email_for_role(email, role)
       THEN reply(HTTP_400_BAD_REQUEST, "invalid email domain")
       ELSE IF scalar_one_or_none(Cardinality(UsersWithEmail(email))) # "None"
       THEN reply(HTTP_400_BAD_REQUEST, "Email already registered")
       ELSE IF role \notin UserRole
       THEN reply(HTTP_500_INTERNAL_SERVER_ERROR, "ValueError")
       ELSE /\ Cardinality(NewUsers) < MaxNewUsers
            /\ requests' = [requests EXCEPT ![r] =
                   InFlight("register", "checked", Registrant(role), 0,
                            [email |-> email], <<>>)]
            /\ response' = NoResponse
    /\ UNCHANGED <<users, tokens, utcnow, taskVars, grievanceVars, courseVars, oppVars>>

\* register, the commit (lines 82-109); every registrant chooses the password
\* TEST_PASSWORD.  The insert of an email that is stored
\* by now raises IntegrityError, which no handler catches.
register(r) ==
    LET email == requests[r].data.email IN
    /\ requests[r].op = "register" /\ requests[r].pc = "checked"
    /\ IF user_email_unique(email)
       THEN /\ users' = users \cup
                   {[id |-> email[1], email |-> email, role |-> requests[r].role,
                     display_name |-> PyStr("New User"), is_active |-> TRUE,
                     password_hash |-> get_password_hash(TEST_PASSWORD)]}
            /\ response' = Response("register", Registrant(requests[r].role), 0,
                                    HTTP_201_CREATED, <<email, "created">>)
       ELSE /\ UNCHANGED users
            /\ response' = Response("register", Registrant(requests[r].role), 0,
                                    HTTP_500_INTERNAL_SERVER_ERROR, <<email, "IntegrityError">>)
    /\ requests' = [requests EXCEPT ![r] = IdleReq]
    /\ UNCHANGED <<tokens, utcnow, taskVars, grievanceVars, courseVars, oppVars>>

EmailInputs ==
    { <<"student1", "@", "students", ".", "iitmandi.ac.in">>,
      <<"student3", "@", "students", ".", "iitmandi.ac.in">>,
      <<"faculty3", "@", "iitmandi.ac.in">>,
      <<"faculty3", "@", "gmail.com">> }
RoleInputs == UserRole \cup {"TEACHER"}

NextAuth ==
    \/ \E email \in EmailInputs, role \in RoleInputs : register_check(email, role)
    \/ \E r \in Slots : register(r)

SpecAuth == Init /\ [][NextAuth]_vars

\* ------------------------------------------------------------- users router
\* update_user_role (lines 170-221); current_user is what the presented token
\* says.
update_user_role(tok, user_id, role) ==
    LET current_user == get_current_user(tok)
        found == {u \in users : u.id = user_id}
        user == CHOOSE u \in found : TRUE
        reply(code) ==
            response' = Response("update_user_role", current_user, 0, code,
                                 <<user_id, role>>)
    IN
    /\ FreeSlot # 0
    /\ IF current_user.role # "ADMIN"
       THEN reply(HTTP_403_FORBIDDEN) /\ UNCHANGED users
       ELSE IF role \notin UserRole
       THEN reply(HTTP_400_BAD_REQUEST) /\ UNCHANGED users
       ELSE IF scalar_one_or_none(Cardinality(found)) = "None"
       THEN reply(HTTP_404_NOT_FOUND) /\ UNCHANGED users
       ELSE IF ~validate_email_for_role(user.email, role)
       THEN reply(HTTP_400_BAD_REQUEST) /\ UNCHANGED users
       ELSE /\ users' = (users \ {user}) \cup {[user EXCEPT !.role = role]}
            /\ reply(HTTP_200_OK)
    /\ UNCHANGED <<tokens, utcnow, taskVars, grievanceVars, courseVars, oppVars, requests>>

UserIdInputs == {"student1", "admin", "faculty3", "nobody"}

\* Registration and role changes.
NextRole ==
    \/ \E email \in EmailInputs, role \in {"STUDENT", "FACULTY"} : register_check(email, role)
    \/ \E r \in Slots : register(r)
    \/ \E tok \in TokensOf({"admin", "faculty1"}), user_id \in UserIdInputs, role \in RoleInputs :
           update_user_role(tok, user_id, role)

SpecRole == Init /\ [][NextRole]_vars

\* ------------------------------------------------------------------ sessions
\* Mutant: only a token with the lifetime of an access token is accepted.
verify_access_token(token) ==
    IF token.exp < utcnow \/ token.exp > utcnow + ACCESS_TOKEN_EXPIRE_MINUTES
    THEN None ELSE token

\* verify_token (security.py lines 57-65): the payload of the token, None for
\* a token jwt.decode rejects; every token here is signed by the server, so
\* that is the token whose exp has passed.
verify_token(token) == IF token.exp < utcnow THEN None ELSE token

\* The caller of an operation that answers before anybody is authenticated.
Anonymous == [id |-> None, role |-> ""]

\* Depends(get_current_user) in front of a handler (deps.py lines 11-44): a
\* request whose bearer token verify_token rejects is answered 401 and the
\* handler does not run.
Depends_get_current_user(op, tok, handler) ==
    IF verify_token(tok) = None
    THEN /\ FreeSlot # 0
         /\ response' = Response(op, Anonymous, 0, HTTP_401_UNAUTHORIZED, <<tok>>)
         /\ UNCHANGED <<users, tokens, utcnow, grievanceVars, courseVars, oppVars,
                        taskVars, requests>>
    ELSE handler

\* The token pair login and refresh_token return (schemas/auth.py, Token).
Token(access_token, refresh_token) ==
    [access_token |-> access_token, refresh_token |-> refresh_token]

\* The store of issued tokens has room for this pair.
RoomFor(pair) ==
    Cardinality(tokens \cup {pair.access_token, pair.refresh_token})
        <= Cardinality(TEST_USERS) + MaxTokens

\* login (auth.py lines 112-145).
login(email, password) ==
    LET found == UsersWithEmail(email)
        user == CHOOSE u \in found : TRUE
        pair == Token(create_access_token(token_data(user)),
                      create_refresh_token(token_data(user)))
        reply(code, body) == response' = Response("login", Anonymous, 0, code, body)
    IN
    /\ FreeSlot # 0
    /\ IF \/ scalar_one_or_none(Cardinality(found)) = "None"
          \/ ~verify_password(password, user.password_hash)
       THEN reply(HTTP_401_UNAUTHORIZED, <<>>) /\ UNCHANGED tokens
       ELSE IF ~user.is_active
       THEN reply(HTTP_403_FORBIDDEN, <<>>) /\ UNCHANGED tokens
       ELSE /\ RoomFor(pair)
            /\ tokens' = tokens \cup {pair.access_token, pair.refresh_token}
            /\ reply(HTTP_200_OK, <<pair>>)
    /\ UNCHANGED <<users, utcnow, grievanceVars, courseVars, oppVars, taskVars, requests>>

\* refresh_token (auth.py lines 148-192); the response is given with the token
\* of the request in front of the returned pair.
refresh_token(token) ==
    LET payload == verify_token(token)
        found == {u \in users : u.id = payload.sub}
        user == CHOOSE u \in found : TRUE
        pair == Token(create_access_token(token_data(user)),
                      create_refresh_token(token_data(user)))
        reply(code, body) ==
            response' = Response("refresh_token", Anonymous, 0, code, <<token>> \o body)
    IN
    /\ FreeSlot # 0
    /\ IF payload = None
       THEN reply(HTTP_401_UNAUTHORIZED, <<>>) /\ UNCHANGED tokens
       ELSE IF \/ scalar_one_or_none(Cardinality(found)) = "None"
               \/ ~user.is_active
       THEN reply(HTTP_401_UNAUTHORIZED, <<>>) /\ UNCHANGED tokens
       ELSE /\ RoomFor(pair)
            /\ tokens' = tokens \cup {pair.access_token, pair.refresh_token}
            /\ reply(HTTP_200_OK, <<pair>>)
    /\ UNCHANGED <<users, utcnow, grievanceVars, courseVars, oppVars, taskVars, requests>>

\* logout (auth.py lines 195-200): answers, and does nothing else.
logout(token) ==
    /\ FreeSlot # 0
    /\ response' = Response("logout", Anonymous, 0, HTTP_200_OK, <<token>>)
    /\ UNCHANGED <<users, tokens, utcnow, grievanceVars, courseVars, oppVars, taskVars,
                   requests>>

\* Time passes, up to the first minute at which one more of the issued tokens
\* has expired.
sleep ==
    LET pending == {tok.exp : tok \in {t \in tokens : t.exp >= utcnow}}
    IN
    /\ pending # {}
    /\ utcnow' = 1 + CHOOSE e \in pending : \A f \in pending : e <= f
    /\ response' = NoResponse
    /\ UNCHANGED <<users, tokens, grievanceVars, courseVars, oppVars, taskVars, requests>>

\* get_current_user_profile (users.py lines 38-62): the caller's stored row.
get_current_user_profile(tok) ==
    LET current_user == get_current_user(tok)
        found == {u \in users : u.id = current_user.id.v}
        user == CHOOSE u \in found : TRUE
    IN
    /\ FreeSlot # 0
    /\ response' =
           IF scalar_one_or_none(Cardinality(found)) = "None"
           THEN Response("get_current_user_profile", current_user, 0,
                         HTTP_404_NOT_FOUND, <<>>)
           ELSE Response("get_current_user_profile", current_user, 0, HTTP_200_OK,
                         <<[id |-> user.id, email |-> user.email, role |-> user.role]>>)
    /\ UNCHANGED <<users, tokens, utcnow, grievanceVars, courseVars, oppVars, taskVars,
                   requests>>

\* list_users (users.py lines 136-167): for an ADMIN caller, the ids and roles
\* of the stored users.
list_users(tok) ==
    LET current_user == get_current_user(tok) IN
    /\ FreeSlot # 0
    /\ response' =
           IF current_user.role # "ADMIN"
           THEN Response("list_users", current_user, 0, HTTP_403_FORBIDDEN, <<>>)
           ELSE Response("list_users", current_user, 0, HTTP_200_OK,
                         <<{[id |-> u.id, role |-> u.role] : u \in users}>>)
    /\ UNCHANGED <<users, tokens, utcnow, grievanceVars, courseVars, oppVars, taskVars,
                   requests>>

LoginEmailInputs ==
    { <<"admin", "@", "iitmandi.ac.in">>,
      <<"nobody", "@", "iitmandi.ac.in">> }
SessionActors == {"admin"}
SessionUserIdInputs == {"admin"}
SessionRoleInputs == {"ADMIN", "FACULTY"}

\* Logging in, refreshing and using the tokens while time passes and roles
\* change.
NextSession ==
    \/ \E email \in LoginEmailInputs, password \in {TEST_PASSWORD, "letmein"} :
           login(email, password)
    \/ \E tok \in TokensOf(SessionActors) : refresh_token(tok)
    \/ \E tok \in TokensOf(SessionActors) : logout(tok)
    \/ sleep
    \/ \E tok \in TokensOf(SessionActors) :
           Depends_get_current_user("get_current_user_profile", tok,
                                    get_current_user_profile(tok))
    \/ \E tok \in TokensOf(SessionActors) :
           Depends_get_current_user("list_users", tok, list_users(tok))
    \/ \E tok \in TokensOf(SessionActors),
          user_id \in SessionUserIdInputs, role \in SessionRoleInputs :
           Depends_get_current_user("update_user_role", tok,
                                    update_user_role(tok, user_id, role))

SpecSession == Init /\ [][NextSession]_vars

\* A deployment seeded without the ADMIN user, before any token is issued.
InitNoAdmin ==
    /\ users = {u \in TEST_USERS : u.role # "ADMIN"}
    /\ utcnow = 0
    /\ tokens = {}
    /\ grievances = <<>>
    /\ grievance_updates = <<>>
    /\ g_origin = <<>>
    /\ courses = <<>>
    /\ enrollments = <<>>
    /\ resources = <<>>
    /\ opportunities = <<>>
    /\ applications = <<>>
    /\ today = 0
    /\ tasks = {}
    /\ tasks_created = 0
    /\ requests = [r \in Slots |-> IdleReq]
    /\ response = NoResponse

NoAdminEmailInputs ==
    { <<"faculty1", "@", "iitmandi.ac.in">>,
      <<"faculty3", "@", "iitmandi.ac.in">> }

\* Registering, logging in and asking for roles where nobody is ADMIN.
NextNoAdmin ==
    \/ \E email \in EmailInputs, role \in RoleInputs : register_check(email, role)
    \/ \E r \in Slots : register(r)
    \/ \E email \in NoAdminEmailInputs : login(email, TEST_PASSWORD)
    \/ \E tok \in tokens : refresh_token(tok)
    \/ \E tok \in tokens, user_id \in {"faculty1", "faculty3"}, role \in {"ADMIN", "AUTHORITY"} :
           Depends_get_current_user("update_user_role", tok,
                                    update_user_role(tok, user_id, role))

SpecNoAdmin == InitNoAdmin /\ [][NextNoAdmin]_vars

\* -------------------------------------------------------------- files router
\* A pathlib.Path: whether it is absolute, and its parts.  Building a Path
\* drops "." parts and empty parts; ".." parts are kept as they are.
Path(abs, parts) == [abs |-> abs, parts |-> SelectSeq(parts, LAMBDA x : x \notin {".", ""})]

\* storage.py lines 12-14 (the default of UPLOAD_DIR).
UPLOAD_DIR ==
    Path(TRUE, <<"home", "apsingh", "Documents", "krkhc_2", "backend", "uploads">>)

\* Path.__truediv__ (UPLOAD_DIR / file_path): an absolute right operand
\* replaces the left one.
truediv(self, key) == IF key.abs THEN key ELSE Path(self.abs, self.parts \o key.parts)

\* PurePath.relative_to(other): compares the parts as written, resolving
\* nothing; ValueError unless the parts of other begin the parts of self.
relative_to(self, other) ==
    IF /\ self.abs = other.abs
       /\ Len(other.parts) <= Len(self.parts)
       /\ SubSeq(self.parts, 1, Len(other.parts)) = other.parts
    THEN "ok" ELSE "ValueError"

\* The files and directories of the server's file system, by their absolute
\* parts: the upload tree with one stored avatar, and the backend's sources
\* next to it.
Prefixes(parts) == {SubSeq(parts, 1, n) : n \in 0..Len(parts)}
Directories == Prefixes(UPLOAD_DIR.parts \o <<"avatars">>)
Files ==
    { UPLOAD_DIR.parts \o <<"avatars", "a.png">>,
      <<"home", "apsingh", "Documents", "krkhc_2", "backend", "main.py">> }

NoEntry == <<"", "ENOENT">>

\* The operating system's lookup of an absolute path, part by part from cur:
\* ".." leads to the parent of the directory reached so far.
RECURSIVE lookup(_, _)
lookup(cur, rest) ==
    IF rest = <<>> THEN (IF cur \in Directories \cup Files THEN cur ELSE NoEntry)
    ELSE IF cur \notin Directories THEN NoEntry
    ELSE IF Head(rest) = ".."
    THEN lookup(IF cur = <<>> THEN <<>> ELSE SubSeq(cur, 1, Len(cur) - 1), Tail(rest))
    ELSE lookup(cur \o <<Head(rest)>>, Tail(rest))

\* Path.exists().
exists(path) == lookup(<<>>, path.parts) # NoEntry

\* serve_file (files.py lines 260-278); the response is given with the
\* requested path and the location of the file that is sent.  FileResponse
\* fails on a path that is not a regular file.
serve_file(file_path) ==
    LET full_path == truediv(UPLOAD_DIR, file_path)
        reply(code, body) ==
            response' = Response("serve_file", Anonymous, 0, code, <<file_path>> \o body)
    IN
    /\ FreeSlot # 0
    /\ IF relative_to(full_path, UPLOAD_DIR) = "ValueError"
       THEN reply(HTTP_403_FORBIDDEN, <<>>)
       ELSE IF ~exists(full_path)
       THEN reply(HTTP_404_NOT_FOUND, <<>>)
       ELSE IF lookup(<<>>, full_path.parts) \notin Files
       THEN reply(HTTP_500_INTERNAL_SERVER_ERROR, <<>>)
       ELSE reply(HTTP_200_OK, <<lookup(<<>>, full_path.parts)>>)
    /\ UNCHANGED <<users, tokens, utcnow, grievanceVars, courseVars, oppVars, taskVars,
                   requests>>

\* The requested paths: up to MaxPathLen parts, relative, or absolute from the
\* root or from the upload directory.
PathParts == {"..", "avatars", "a.png", "main.py"}
RelativeInputs == UNION {[1..n -> PathParts] : n \in 0..MaxPathLen}
PathInputs ==
    {Path(FALSE, parts) : parts \in RelativeInputs}
        \cup {Path(TRUE, parts) : parts \in RelativeInputs}
        \cup {Path(TRUE, UPLOAD_DIR.parts \o parts) : parts \in RelativeInputs}

NextFiles == \E file_path \in PathInputs : serve_file(file_path)

SpecFiles == Init /\ [][NextFiles]_vars

\* Duplicate creation: register and create_course, the two operations whose
\* key the store keeps unique, running side by side.
NextUnique ==
    \/ \E email \in EmailInputs, role \in {"STUDENT", "FACULTY"} : register_check(email, role)
    \/ \E r \in Slots : register(r)
    \/ \E tok \in TokensOf(CourseActors), code \in CodeInputs : create_course_check(tok, code)
    \/ \E r \in Slots : create_course(r)

SpecUnique == Init /\ [][NextUnique]_vars

\* ------------------------------------------------------------------ the API
\* Every router's writing operations side by side.  The workflows share no
\* table: a behaviour works on one of them.
Workflows == {"users", "grievances", "courses", "opportunities", "tasks"}

Busy(ops) == \E r \in Slots : requests[r].op \in ops

Started(w) ==
    CASE w = "users" -> users # TEST_USERS \/ Busy({"register"})
      [] w = "grievances" ->
             grievances # <<>> \/ Busy({"create_grievance", "add_grievance_update"})
      [] w = "courses" -> courses # <<>> \/ Busy({"create_course", "enroll_in_course"})
      [] w = "opportunities" ->
             opportunities # <<>> \/ Busy({"apply_to_opportunity"})
      [] w = "tasks" -> tasks_created # 0

Only(w) == \A v \in Workflows \ {w} : ~Started(v)

\* The actors of the workflows: the student and the AUTHORITY actor of a
\* grievance, the professor and a student of a course, the creator and an
\* applicant of an opportunity, with the ADMIN reviewing the applications the
\* seed has stored.

NextApi ==
    \/ Only("users") /\ NextRole
    \/ \E tok \in TokensOf({"student1"}) :
           Only("grievances") /\ create_grievance(tok, "HOSTEL", FALSE)
    \/ \E r \in Slots : create_grievance_initial_update(r)
    \/ \E tok \in TokensOf({"authority1"}), gid \in GidInputs, m \in RemarkInputs :
           Only("grievances") /\ add_grievance_update_load(tok, gid, "IN_PROGRESS", m)
    \/ \E r \in Slots : add_grievance_update(r)
    \/ \E tok \in TokensOf({"faculty1"}) :
           Only("courses") /\ create_course_check(tok, "CS101")
    \/ \E r \in Slots : create_course(r)
    \/ \E tok \in TokensOf({"student1"}), c \in CourseIdInputs :
           Only("courses") /\ enroll_in_course_check(tok, c)
    \/ \E r \in Slots : enroll_in_course(r)
    \/ \E tok \in TokensOf({"faculty1"}),
          c \in CourseIdInputs, d \in {[type |-> "NOTES", year |-> PyInt(2024)]} :
           Only("courses") /\ create_resource(tok, c, d)
    \/ \E tok \in TokensOf({"faculty1"}), c \in CourseIdInputs, f \in {<<"notes", ".pdf">>} :
           Only("courses") /\ upload_course_resource(tok, c, f)
    \/ Only("opportunities") /\ create_sample_opportunities
    \/ \E tok \in TokensOf({"faculty1"}) :
           Only("opportunities") /\ create_opportunity(tok, "RESEARCH", Date(MaxDay))
    \/ \E tok \in TokensOf({"student1"}), o \in OpportunityIdInputs :
           Only("opportunities") /\ apply_to_opportunity_load(tok, o)
    \/ \E r \in Slots : apply_to_opportunity(r)
    \/ \E tok \in TokensOf({"admin"}), a \in ApplicationIdInputs :
           Only("opportunities") /\ update_application_status(tok, a, "ACCEPTED")
    \/ Only("tasks") /\ NextTask

SpecApi == Init /\ [][NextApi]_vars

\* ------------------------------------------------------ grievance claims
GrievanceIds == 1..Len(grievances)
GrievanceReads == {"list_grievances", "get_grievance"}

\* C1: in every reachable state every grievance that has updates carries the
\* status of its most recently appended update.
StatusEqualsLatestUpdate ==
    \A g \in GrievanceIds :
        LET ups == UpdatesOf(g) IN
        Len(ups) > 0 => grievances[g].status = ups[Len(ups)].status

\* C2: a stored grievance always has its initial update, and no list or detail
\* read returns a grievance whose update log is empty.
GrievanceNeverWithoutInitialUpdate ==
    /\ \A g \in GrievanceIds : Len(UpdatesOf(g)) > 0
    /\ response.op \in GrievanceReads =>
           \A i \in DOMAIN response.body : Len(response.body[i].updates) > 0

\* C9: a grievance created with is_anonymous = true is anonymous and has a null
\* submitter_id in every later state, whatever operations ran on it.
AnonymousSubmitterStaysNull ==
    \A g \in GrievanceIds :
        g_origin[g].is_anonymous =>
            /\ grievances[g].is_anonymous
            /\ grievances[g].submitter_id = None

\* C9 witness: an anonymous grievance that got a status update (it is assigned)
\* and whose creator was just refused a photo upload.
AnonymousGrievanceWorkedOn ==
    \E g \in GrievanceIds :
        /\ g_origin[g].is_anonymous
        /\ Truthy(grievances[g].assigned_to)
        /\ Len(UpdatesOf(g)) >= 2
        /\ response.op = "upload_grievance_photo"
        /\ response.arg = g
        /\ response.user = PyStr(g_origin[g].creator)

\* C10: for an anonymous grievance whose creator cannot post status updates
\* (a student or faculty member), no stored update of the grievance and no
\* grievance returned to another reader carries the creator's user id.
AnonymousCreatorNotRetained ==
    \A g \in GrievanceIds :
        (g_origin[g].is_anonymous /\ g_origin[g].role \in {"STUDENT", "FACULTY"}) =>
            /\ \A i \in DOMAIN UpdatesOf(g) :
                   UpdatesOf(g)[i].updated_by # UUID(g_origin[g].creator)
            /\ (response.op \in GrievanceReads /\ response.user # PyStr(g_origin[g].creator)) =>
                   \A i \in DOMAIN response.body :
                       response.body[i].id = g =>
                           /\ response.body[i].submitter_id = None
                           /\ \A j \in DOMAIN response.body[i].updates :
                                  response.body[i].updates[j].updated_by.id
                                      # PyStr(g_origin[g].creator)

\* The visibility rule of the specification: ADMIN and AUTHORITY read every
\* grievance, STUDENT and FACULTY their own and the anonymous ones.
MayReadGrievance(role, user, gid) ==
    \/ role \in {"ADMIN", "AUTHORITY"}
    \/ grievances[gid].submitter_id = UUID(user.v)
    \/ grievances[gid].is_anonymous

\* C12: list_grievances and get_grievance apply the same visibility rule: a
\* grievance is returned to an actor, by list or by id, only if the rule lets
\* the actor read it, and list returns every grievance the actor may read.
GrievanceReadsFollowVisibilityRule ==
    /\ (response.op = "get_grievance" /\ response.arg \in GrievanceIds)
           => ( response.out = HTTP_200_OK
                  <=> MayReadGrievance(response.role, response.user, response.arg) )
    /\ response.op = "list_grievances"
           => {response.body[i].id : i \in 1..Len(response.body)}
                = {gid \in GrievanceIds :
                       MayReadGrievance(response.role, response.user, gid)}

AssigneeSetByFirstUpdateOnly ==
    [][\A gid \in GrievanceIds :
          /\ ( /\ response'.op = "add_grievance_update"
               /\ response'.out = HTTP_200_OK
               /\ response'.arg = gid
               /\ ~Truthy(grievances[gid].assigned_to) )
                => grievances'[gid].assigned_to.v = response'.user.v
          /\ Truthy(grievances[gid].assigned_to)
                => grievances'[gid].assigned_to = grievances[gid].assigned_to]_vars

\* A step that answers 200 to an add_grievance_update for grievance gid.
UpdateAccepted(gid) ==
    /\ response'.op = "add_grievance_update"
    /\ response'.out = HTTP_200_OK
    /\ response'.arg = gid

\* The log is append-only, a successful add_grievance_update appends one row
\* (actor, new status, remark) and sets the grievance's status to it in the
\* same step, and a failed one appends nothing.
LogAppendOnly ==
    /\ Len(grievance_updates) <= Len(grievance_updates')
    /\ SubSeq(grievance_updates', 1, Len(grievance_updates)) = grievance_updates
    /\ \A gid \in GrievanceIds :
          UpdateAccepted(gid)
            => /\ Len(grievance_updates') = Len(grievance_updates) + 1
               /\ LET update == grievance_updates'[Len(grievance_updates')] IN
                  /\ update.grievance_id = gid
                  /\ update.updated_by = UUID(response'.user.v)
                  /\ update.status \in GrievanceStatus
                  /\ update.remark \in RemarkInputs
                  /\ grievances'[gid].status = update.status
    /\ (response'.op = "add_grievance_update" /\ response'.out # HTTP_200_OK)
          => /\ response'.out \in {HTTP_403_FORBIDDEN, HTTP_404_NOT_FOUND,
                                   HTTP_400_BAD_REQUEST}
             /\ grievance_updates' = grievance_updates
             /\ grievances' = grievances

\* The log of a grievance has one row when the grievance is stored and grows
\* by one with each successful add_grievance_update, and only then.
LogLengthCountsUpdates ==
    /\ \A gid \in GrievanceIds' \ GrievanceIds : Len(UpdatesOf(gid)') = 1
    /\ \A gid \in GrievanceIds :
          Len(UpdatesOf(gid)') =
              Len(UpdatesOf(gid)) + (IF UpdateAccepted(gid) THEN 1 ELSE 0)

\* C25: the GrievanceUpdate log is append-only: each successful
\* add_grievance_update appends exactly one row and sets Grievance.status with
\* it, every failed call appends nothing, no step modifies or removes a row,
\* and so the log of a grievance is 1 plus its successful status updates long.
LogIsAppendOnlyAndCountsUpdates ==
    [][LogAppendOnly /\ LogLengthCountsUpdates]_vars

\* --------------------------------------------------------- course claims
\* C3: an enroll_in_course call by a student who already has an Enrollment for
\* the course is answered 400 "Already enrolled in this course".  (A call that
\* is answered without a commit leaves the table as the call found it.)
EnrollAgainYieldsConflict ==
    ( /\ response.op = "enroll_in_course"
      /\ response.out # HTTP_200_OK
      /\ response.role = "STUDENT"
      /\ response.arg <= Len(courses)
      /\ EnrollmentsOf(response.user, response.arg) # {} )
        => response.out = HTTP_400_BAD_REQUEST

\* C4: at most one Enrollment per (student, course) in every reachable state.
OneEnrollmentPerStudentCourse ==
    \A e1, e2 \in 1..Len(enrollments) :
        ( /\ enrollments[e1].student_id = enrollments[e2].student_id
          /\ enrollments[e1].course_id = enrollments[e2].course_id ) => e1 = e2

\* The course read rule of the specification: the course's professor, an
\* ADMIN, or a STUDENT with an Enrollment in the course.
MayReadCourse(role, user, course_id) ==
    \/ courses[course_id].professor_id = UUID(user.v)
    \/ role = "ADMIN"
    \/ role = "STUDENT" /\ EnrollmentsOf(user, course_id) # {}

\* C13: get_course on an existing course is answered 200 iff the actor is the
\* course's professor, an ADMIN or an enrolled student, and 403 otherwise.
GetCourseSucceedsIffPermitted ==
    (response.op = "get_course" /\ response.arg <= Len(courses))
        => /\ response.out = HTTP_200_OK
                <=> MayReadCourse(response.role, response.user, response.arg)
           /\ response.out \in {HTTP_200_OK, HTTP_403_FORBIDDEN}

\* ---------------------------------------------------- opportunity claims
PastDeadline(opportunity) == opportunity.deadline.v < today

\* C5: when a student who already has an Application for an open opportunity
\* whose deadline has not passed calls apply_to_opportunity again, the call is
\* answered 400 "Already applied".
ApplyAgainYieldsAlreadyApplied ==
    ( /\ response.op = "apply_to_opportunity"
      /\ response.role = "STUDENT"
      /\ response.arg <= Len(opportunities)
      /\ opportunities[response.arg].is_open
      /\ ~PastDeadline(opportunities[response.arg])
      /\ response.out # HTTP_200_OK
      /\ ApplicationsOf(response.user, response.arg) # {} )
        => /\ response.out = HTTP_400_BAD_REQUEST
           /\ response.body = <<"Already applied to this opportunity">>

ApplyToClosedOrPastYieldsValidation ==
    ( /\ response.op = "apply_to_opportunity"
      /\ response.role = "STUDENT"
      /\ response.arg <= Len(opportunities)
      /\ \/ ~opportunities[response.arg].is_open
         \/ PastDeadline(opportunities[response.arg]) )
        => response.out = HTTP_400_BAD_REQUEST

\* The user who created an opportunity (Opportunity.faculty_id).
IsCreator(user, opportunity_id) ==
    opportunities[opportunity_id].faculty_id = UUID(user.v)

\* C15: close_opportunity on an existing opportunity is answered 200 iff the
\* actor created the opportunity or is an ADMIN.
CloseSucceedsIffCreatorOrAdmin ==
    (response.op = "close_opportunity" /\ response.arg <= Len(opportunities))
        => ( response.out = HTTP_200_OK
               <=> (IsCreator(response.user, response.arg) \/ response.role = "ADMIN") )

\* C16: list_opportunity_applications and update_application_status on an
\* existing opportunity / application are refused (403) iff the actor is
\* neither the creator of the opportunity nor an ADMIN.
ApplicationAccessIffCreatorOrAdmin ==
    /\ (response.op = "list_opportunity_applications"
           /\ response.arg <= Len(opportunities))
         => ( response.out = HTTP_403_FORBIDDEN
                <=> ~(IsCreator(response.user, response.arg) \/ response.role = "ADMIN") )
    /\ (response.op = "update_application_status"
           /\ response.arg <= Len(applications))
         => ( response.out = HTTP_403_FORBIDDEN
                <=> ~( \/ IsCreator(response.user, applications[response.arg].opportunity_id)
                       \/ response.role = "ADMIN" ) )

ApplicationsFor(opportunity_id) ==
    {a \in 1..Len(applications) : applications[a].opportunity_id = opportunity_id}

\* C17: an opportunity whose is_open is false keeps is_open false in every
\* later state, and no Application for it is stored from then on.
ClosedStaysClosed ==
    [][\A o \in 1..Len(opportunities) :
          ~opportunities[o].is_open
            => /\ o <= Len(opportunities')
               /\ ~opportunities'[o].is_open
               /\ ApplicationsFor(o)' = ApplicationsFor(o)]_vars

\* C17 (witness): an apply_to_opportunity on a closed opportunity was refused
\* as closed.
ApplyAfterCloseRefused ==
    /\ response.op = "apply_to_opportunity"
    /\ response.arg <= Len(opportunities)
    /\ ~opportunities[response.arg].is_open
    /\ response.body = <<"This opportunity is closed">>

\* -------------------------------------------------------------- task claims
\* The stored tasks of id task_id that belong to somebody other than user.
TasksOfOthers(user, task_id) ==
    {t \in tasks : t.id = task_id /\ t.student_id # UUID(user.v)}

\* C18: list_my_tasks returns only tasks owned by the actor; update_task and
\* delete_task on a task of another user fail and leave the tasks unchanged;
\* a stored task changes or disappears only in a step that answers its
\* owner's update_task or delete_task.
TaskOnlyForOwner ==
    [][ /\ response'.op = "list_my_tasks"
            => \A i \in 1..Len(response'.body) :
                   \E t \in tasks : /\ t.id = response'.body[i].id
                                    /\ t.student_id = UUID(response'.user.v)
        /\ (response'.op \in {"update_task", "delete_task"}
               /\ TasksOfOthers(response'.user, response'.arg) # {})
            => /\ response'.out # HTTP_200_OK
               /\ tasks' = tasks
        /\ \A t \in tasks :
              t \notin tasks'
                => /\ response'.op \in {"update_task", "delete_task"}
                   /\ response'.arg = t.id
                   /\ UUID(response'.user.v) = t.student_id ]_vars

\* C18 (witness): an ADMIN's update_task on a stored task of a student failed.
AdminTaskUpdateFailed ==
    /\ response.op = "update_task"
    /\ response.role = "ADMIN"
    /\ TasksOfOthers(response.user, response.arg) # {}
    /\ response.out # HTTP_200_OK

\* C19: update_task / delete_task on an existing task of another user is
\* answered Forbidden (403), not NotFound.
TaskDenialIsForbidden ==
    ( /\ response.op \in {"update_task", "delete_task"}
      /\ TasksOfOthers(response.user, response.arg) # {} )
        => response.out = HTTP_403_FORBIDDEN

\* The progress the specification has a write of requested progress p store.
Clamped(p) == Max(0, Min(100, p))

\* C21: creating or updating a task with requested progress p stores
\* max(0, min(100, p)), and every stored task has 0 <= progress <= 100.
TaskProgressClampedOnWrite ==
    /\ [](\A t \in tasks : 0 <= t.progress /\ t.progress <= 100)
    /\ [][ /\ \A tok \in TokensOf(TaskActors), b \in TaskCreateInputs :
                (create_task(tok, b) /\ Truthy(b.progress))
                  => \E t \in tasks' \ tasks : t.progress = Clamped(b.progress.v)
           /\ \A tok \in TokensOf(TaskActors), id \in TaskIdInputs, d \in TaskUpdateInputs :
                ( /\ update_task(tok, id, d)
                  /\ Truthy(d.progress)
                  /\ response'.out = HTTP_200_OK )
                  => \E t \in tasks' : t.id = id /\ t.progress = Clamped(d.progress.v)
         ]_vars

\* ----------------------------------------------------------- auth claims
\* C7: a register or create_course request that passed its pre-check ends
\* with the row created (201) or with a Conflict (400), never with an
\* unhandled failure.
UniquenessRaceYieldsConflict ==
    [][\A r \in Slots :
          ( /\ requests[r].op \in {"register", "create_course"}
            /\ requests[r].pc = "checked"
            /\ requests'[r].pc = "idle" )
            => response'.out \in {HTTP_201_CREATED, HTTP_400_BAD_REQUEST}]_vars

\* The suffix the specification requires of the emails of a role.
RequiredSuffix(role) ==
    IF role = "STUDENT" THEN <<"@", "students", ".", "iitmandi.ac.in">>
    ELSE <<"@", "iitmandi.ac.in">>

\* The email from its "@" on.
DomainOf(email) ==
    LET at == CHOOSE i \in 1..Len(email) : email[i] = "@"
    IN SubSeq(email, at, Len(email))

DomainMatches(email, role) == DomainOf(email) = RequiredSuffix(role)

\* C8 (as stated): register(E, R) succeeds iff E's domain matches R's suffix
\* and R is not ADMIN.
RegisterSucceedsIffDomainAndRole ==
    (response.op = "register" /\ response.role \in UserRole)
        => ( response.out = HTTP_201_CREATED
               <=> (DomainMatches(response.body[1], response.role) /\ response.role # "ADMIN") )

\* C8 (amended): register(E, R) for a role R succeeds iff E's domain matches R's
\* suffix, R is not ADMIN and no user with email E is stored when the request
\* is decided; R = ADMIN is answered 403 whatever the email; a rejected
\* request leaves the users as they were, a successful one adds the user (E, R).
RegisterSucceedsIffDomainRoleAndFreshEmail ==
    [][(response'.op = "register" /\ response'.role \in UserRole)
          => LET E == response'.body[1]
                 R == response'.role
             IN /\ response'.out = HTTP_201_CREATED
                     <=> ( /\ DomainMatches(E, R)
                           /\ R # "ADMIN"
                           /\ ~\E u \in users : u.email = E )
                /\ R = "ADMIN" => response'.out = HTTP_403_FORBIDDEN
                /\ response'.out # HTTP_201_CREATED => users' = users
                /\ response'.out = HTTP_201_CREATED
                     => /\ Cardinality(users') = Cardinality(users) + 1
                        /\ \E u \in users' : users' = users \cup {u}
                                             /\ u.email = E /\ u.role = R]_vars

\* C8 (witness): a registration was accepted and its user is stored.
RegistrationAccepted ==
    /\ response.op = "register"
    /\ response.out = HTTP_201_CREATED
    /\ \E u \in NewUsers : u.email = response.body[1] /\ u.role = response.role

\* C20: in every state every user's email satisfies the domain rule of the
\* user's role; the role of a stored user changes only in a step that answers
\* 200 to an update_user_role of an ADMIN actor for that user and a role whose
\* domain rule the user's email satisfies; a refused update_user_role leaves
\* the users unchanged.
RoleChangesOnlyByAdminWithinDomain ==
    /\ [](\A u \in users : DomainMatches(u.email, u.role))
    /\ [][ /\ \A u \in users : \A v \in users' :
                (v.id = u.id /\ v.role # u.role)
                  => /\ response'.op = "update_user_role"
                     /\ response'.out = HTTP_200_OK
                     /\ response'.role = "ADMIN"
                     /\ response'.body = <<u.id, v.role>>
                     /\ DomainMatches(u.email, v.role)
           /\ (response'.op = "update_user_role" /\ response'.out # HTTP_200_OK)
                => users' = users ]_vars

\* C20 (witness): an update_user_role was accepted and the user now has a role
\* other than the one the user was seeded with.
RoleChanged ==
    /\ response.op = "update_user_role"
    /\ response.out = HTTP_200_OK
    /\ \E u \in users : \E s \in TEST_USERS :
          /\ u.id = s.id /\ u.id = response.body[1]
          /\ u.role = response.body[2] /\ u.role # s.role

\* --------------------------------------------------------- session claims
\* The stored, active user a token names.
TokenUsers(token) == {u \in users : u.id = token.sub /\ u.is_active}

\* The minutes a refresh token lives.
RefreshLifetime == REFRESH_TOKEN_EXPIRE_DAYS * 24 * 60

AdminOnlyAnswer(tok, code) ==
    IF tok.exp < utcnow THEN code = HTTP_401_UNAUTHORIZED
    ELSE (code = HTTP_403_FORBIDDEN) <=> (tok.role # "ADMIN")

\* C28: authorization uses the role in the presented token, not the stored
\* one: list_users and update_user_role refuse a token exactly when the role
\* it carries is not ADMIN, whatever role update_user_role has stored for the
\* user since the token was issued, until the token expires (no step is a
\* call with a token that the answer does not fit).
TokenRoleAuthorizes ==
    [][response'.op \in {"list_users", "update_user_role"} =>
         \A tok \in tokens :
             ~AdminOnlyAnswer(tok, response'.out) =>
                 /\ ~Depends_get_current_user("list_users", tok, list_users(tok))
                 /\ \A user_id \in SessionUserIdInputs, role \in SessionRoleInputs :
                        ~Depends_get_current_user("update_user_role", tok,
                                                  update_user_role(tok, user_id, role))]_vars

\* The stored role of the ADMIN is FACULTY by now, and list_users has answered
\* the token issued before.
DemotedAdminStillListsUsers ==
    /\ \E u \in users : u.id = "admin" /\ u.role = "FACULTY"
    /\ response.op = "list_users" /\ response.out = HTTP_200_OK
    /\ response.user = PyStr("admin") /\ response.role = "ADMIN"

\* A step in which an operation behind get_current_user answers a request
\* that presents tok.
BearerCall(tok) ==
    \/ Depends_get_current_user("get_current_user_profile", tok,
                                get_current_user_profile(tok))
    \/ Depends_get_current_user("list_users", tok, list_users(tok))
    \/ \E user_id \in SessionUserIdInputs, role \in SessionRoleInputs :
           Depends_get_current_user("update_user_role", tok,
                                    update_user_role(tok, user_id, role))

BearerOps == {"get_current_user_profile", "list_users", "update_user_role"}

\* What a token says apart from its expiry.
Claims(token) == [sub |-> token.sub, email |-> token.email, role |-> token.role]

\* C29: access and refresh tokens are interchangeable: the two tokens of an
\* issued pair carry the same claims; an operation behind get_current_user
\* answers 401 to a presented token exactly when the token has expired (no
\* step is a call with a token of the other kind), so a refresh token is
\* accepted during its whole lifetime; and refresh_token answers any unexpired
\* token of a stored user with a new pair.
TokensInterchangeable ==
    [][ /\ response'.op \in {"login", "refresh_token"} /\ response'.out = HTTP_200_OK
            => LET pair == response'.body[Len(response'.body)] IN
               Claims(pair.access_token) = Claims(pair.refresh_token)
        /\ response'.op \in BearerOps
            => \A tok \in tokens :
                   (response'.out = HTTP_401_UNAUTHORIZED) # (tok.exp < utcnow)
                       => ~BearerCall(tok)
        /\ response'.op = "refresh_token"
            => \A tok \in tokens :
                   tok.exp >= utcnow /\ TokenUsers(tok) # {}
                       /\ response'.out # HTTP_200_OK
                       => ~refresh_token(tok) ]_vars

\* list_users has answered 200 to the ADMIN at a time when every unexpired
\* token of the ADMIN outlives an access token issued now: the token presented
\* was issued as a refresh token.
RefreshTokenAcceptedAsBearer ==
    /\ response.op = "list_users" /\ response.out = HTTP_200_OK
    /\ response.user = PyStr("admin")
    /\ \A tok \in tokens :
           tok.sub = "admin" /\ tok.exp >= utcnow
               => tok.exp > utcnow + ACCESS_TOKEN_EXPIRE_MINUTES

\* ------------------------------------------------------------ file claims
\* C23: serve_file never returns a file whose location lies outside the upload
\* root, whatever path is requested.
ServedFileUnderUploadRoot ==
    (response.op = "serve_file" /\ response.out = HTTP_200_OK)
        => LET location == response.body[2] IN
           /\ Len(UPLOAD_DIR.parts) <= Len(location)
           /\ SubSeq(location, 1, Len(UPLOAD_DIR.parts)) = UPLOAD_DIR.parts

\* ------------------------------------------------------ transition claims
\* An add_grievance_update of an AUTHORITY or ADMIN actor to a status of the
\* enumeration is accepted on every stored grievance, whatever its status, and
\* its commit sets the grievance's status to the requested one.
GrievanceStatusFreelySet ==
    /\ \A tok \in tokens, gid \in GrievanceIds, s \in GrievanceStatus, m \in RemarkInputs :
          (tok.role \in {"AUTHORITY", "ADMIN"} /\ add_grievance_update_load(tok, gid, s, m))
            => /\ response' = NoResponse
               /\ \E r \in Slots : /\ requests'[r].op = "add_grievance_update"
                                   /\ requests[r].op = "idle"
                                   /\ requests'[r].data.status = s
    /\ \A r \in Slots :
          add_grievance_update(r)
            => /\ response'.out = HTTP_200_OK
               /\ grievances'[requests[r].arg].status = requests[r].data.status

\* An update_application_status of the opportunity's creator or an ADMIN actor
\* to a status of the enumeration is answered 200 on every stored application,
\* whatever its status, and sets the application's status to the requested one.
ApplicationStatusFreelySet ==
    ( /\ response'.op = "update_application_status"
      /\ response'.arg <= Len(applications)
      /\ response'.body[1] \in ApplicationStatus
      /\ \/ IsCreator(response'.user, applications[response'.arg].opportunity_id)
         \/ response'.role = "ADMIN" )
        => /\ response'.out = HTTP_200_OK
           /\ applications'[response'.arg].status = response'.body[1]

\* C26: from every source status an authorized actor can set every target
\* status in one call, for grievances (add_grievance_update, AUTHORITY or
\* ADMIN) and for applications (update_application_status, creator or ADMIN).
AnyStatusFromAnyStatus ==
    [][GrievanceStatusFreelySet /\ ApplicationStatusFreelySet]_vars

\* -------------------------------------------------------------- API claims
UserIds == {u.id : u \in users}
TaskIds == {t.id : t \in tasks}

\* The tasks that were created and are stored no more.
Gone == (1..tasks_created) \ TaskIds

\* A step removes no user, course, enrollment, resource, grievance, grievance
\* update, opportunity or application.
TablesOnlyGrow ==
    /\ UserIds \subseteq UserIds'
    /\ Len(courses) <= Len(courses')
    /\ Len(enrollments) <= Len(enrollments')
    /\ Len(resources) <= Len(resources')
    /\ Len(grievances) <= Len(grievances')
    /\ Len(grievance_updates) <= Len(grievance_updates')
    /\ Len(opportunities) <= Len(opportunities')
    /\ Len(applications) <= Len(applications')

\* A task leaves the store only in a step that answers 200 to delete_task of
\* that task called by its owning student.
TaskRemovedOnlyByOwner ==
    \A t \in tasks :
        t.id \notin TaskIds' =>
            /\ response'.op = "delete_task" /\ response'.out = HTTP_200_OK
            /\ response'.arg = t.id
            /\ response'.user = str(t.student_id)

\* A removed task stays removed: no list returns it, update_task and
\* delete_task do not find it, and its id is not stored again.
RemovedTaskNeverRead ==
    \A n \in Gone :
        /\ n \in Gone'
        /\ response'.op = "list_my_tasks" =>
               \A i \in 1..Len(response'.body) : response'.body[i].id # n
        /\ response'.op \in {"update_task", "delete_task"} /\ response'.arg = n =>
               response'.out = HTTP_404_NOT_FOUND

\* C27: no operation removes a User, Course, Enrollment, Resource, Grievance,
\* GrievanceUpdate, Opportunity or Application, each of these sets only grows;
\* a Task is removed only by delete_task called by its owning student, and
\* after that no read returns it.
OnlyTasksAreDestroyedByTheirOwner ==
    [][TablesOnlyGrow /\ TaskRemovedOnlyByOwner /\ RemovedTaskNeverRead]_vars

\* A task was deleted and its owner's role lists tasks afterwards.
DeletedTaskNotListed ==
    /\ Gone # {}
    /\ response.op = "list_my_tasks" /\ response.role = "STUDENT"

\* ------------------------------------------------------------- admin claims
\* C30: where no stored user is ADMIN and no token has been issued, no
\* sequence of operations stores a user with role ADMIN or issues a token that
\* carries it: register refuses the role and update_user_role refuses every
\* caller.
NoAdminArises ==
    /\ \A u \in users : u.role # "ADMIN"
    /\ \A tok \in tokens : tok.role # "ADMIN"

\* update_user_role has refused a logged-in caller who asked for role ADMIN.
AdminRoleRefused ==
    /\ response.op = "update_user_role" /\ response.out = HTTP_403_FORBIDDEN
    /\ response.body[2] = "ADMIN"

====
